---- MODULE Spec2Model ----
(***************************************************************************)
(* A model of the close-approach query core: the predicate filters and     *)
(* create_filters and limit of filters.py, and the two serializers of      *)
(* write.py.                                                               *)
(*                                                                         *)
(* Python values are modelled as tagged records, [type, val], so that      *)
(* truthiness (`if x:`) and identity with None (`x is not None`) are the   *)
(* distinct tests they are in Python.  Floats are modelled by integers     *)
(* (only their order and their zero matter to the code), dates by their    *)
(* ordinal, datetimes by a date and a minute of the day.                   *)
(***************************************************************************)
EXTENDS Integers, Sequences, FiniteSets

VARIABLES
    flt, approach, outcome,                 \* one filter evaluation
    opts, filters, built,                   \* one create_filters call
    source, argN, srcPos, lim, out, requests, stopped,   \* one limit call and its consumer
    fmt, results, openOk, rpos, pulls, pc, fh, file, acc, err  \* one serializer call

filterVars == <<flt, approach, outcome>>
buildVars == <<opts, filters, built>>
limitVars == <<source, argN, srcPos, lim, out, requests, stopped>>
writeVars == <<fmt, results, openOk, rpos, pulls, pc, fh, file, acc, err>>
vars == <<filterVars, buildVars, limitVars, writeVars>>

----------------------------------------------------------------------------
(* Bounds of the model. *)

\* Largest date ordinal of a record or of a filter's reference date.
MaxDate == 2
\* Largest minute of the day in a record's timestamp.
MaxMinute == 1
\* Largest distance, velocity or diameter of a record or reference value.
MaxNum == 2
\* Largest date ordinal given as an option to create_filters.
MaxOptDate == 1
\* Largest number given as an option to create_filters.
MaxOptNum == 1
\* Longest finite prefix of a source given to limit, and its largest item.
MaxLen == 2
MaxItem == 2
\* Largest n given to limit.
MaxN == 3
\* The most items the consumer of limit's result asks for.
MaxRequests == 5
\* The most records a sequence given to a serializer produces.
MaxResults == 2

----------------------------------------------------------------------------
(* Python values. *)

PyNone == [type |-> "NoneType"]
Float(x) == [type |-> "float", val |-> x]
Date(d) == [type |-> "date", val |-> d]
Bool(b) == [type |-> "bool", val |-> b]
Str(s) == [type |-> "str", val |-> s]
PyInt(i) == [type |-> "int", val |-> i]

\* bool(x): None is false, a number is false when zero, a string when empty,
\* a bool is itself; a date is always true.
Truthy(x) ==
    CASE x.type = "NoneType" -> FALSE
      [] x.type = "float" -> x.val # 0
      [] x.type = "int" -> x.val # 0
      [] x.type = "str" -> x.val # ""
      [] x.type = "bool" -> x.val
      [] OTHER -> TRUE

\* The outcome of a call: a returned value or a raised exception.
Return(v) == [kind |-> "return", value |-> v]
Raise(e) == [kind |-> "raise", exc |-> e]
NotCalled == [kind |-> "not_called"]

\* next(it) on an iterator that has produced pos items.  A source produces
\* its items, and then ends (StopIteration), raises an error, or goes on for
\* ever, producing the position as the item.
IterNext(src, pos) ==
    IF pos < Len(src.items) THEN Return(src.items[pos + 1])
    ELSE CASE src.tail = "stop" -> Raise("StopIteration")
           [] src.tail = "raise" -> Raise("SourceError")
           [] src.tail = "forever" -> Return(pos + 1)

\* The comparators of the operator module, on two values of one type.
Op(op, a, b) ==
    CASE op = "eq" -> a = b
      [] op = "ge" -> a.val >= b.val
      [] op = "le" -> a.val <= b.val

----------------------------------------------------------------------------
(* The state of an operation that is not running. *)

FilterIdle == flt = PyNone /\ approach = PyNone /\ outcome = NotCalled

BuildIdle == opts = PyNone /\ filters = << >> /\ built = FALSE

LimitIdle ==
    /\ source = PyNone /\ argN = PyNone /\ srcPos = 0 /\ lim = NotCalled
    /\ out = << >> /\ requests = 0 /\ stopped = FALSE

WriteIdle ==
    /\ fmt = "none" /\ results = PyNone /\ openOk = FALSE /\ rpos = 0
    /\ pulls = << >> /\ pc = "idle" /\ fh = "unopened" /\ file = << >>
    /\ acc = << >> /\ err = PyNone

----------------------------------------------------------------------------
(* filters.py: AttributeFilter and its ten subclasses. *)

\* AttributeFilter.__init__, with the class of the object being constructed.
AttributeFilterInit(cls, op, value) == [cls |-> cls, op |-> op, value |-> value]

\* AttributeFilter.get: the base class has no attribute to fetch.
AttributeFilterGet(a) == Raise("UnsupportedCriterionError")

HazardousFilter(hazardous) == AttributeFilterInit("HazardousFilter", "eq", hazardous)
HazardousFilterGet(a) == Return(a.neo.hazardous)

DateFilter(date) == AttributeFilterInit("DateFilter", "eq", date)
DateFilterGet(a) == Return(Date(a.time.date))

StartDateFilter(date) == AttributeFilterInit("StartDateFilter", "ge", date)
StartDateFilterGet(a) == Return(Date(a.time.date))

EndDateFilter(date) == AttributeFilterInit("EndDateFilter", "le", date)
EndDateFilterGet(a) == Return(Date(a.time.date))

MinDistanceFilter(val) == AttributeFilterInit("MinDistanceFilter", "ge", val)
MinDistanceFilterGet(a) == Return(a.distance)

MaxDistanceFilter(val) == AttributeFilterInit("MaxDistanceFilter", "le", val)
MaxDistanceFilterGet(a) == Return(a.distance)

MinVelocityFilter(val) == AttributeFilterInit("MinVelocityFilter", "ge", val)
MinVelocityFilterGet(a) == Return(a.velocity)

\* MaxVelocityFilter with the comparator its __init__ docstring names (>=).
MaxVelocityFilterSwapped(val) == AttributeFilterInit("MaxVelocityFilter", "ge", val)
MaxVelocityFilter(val) == AttributeFilterInit("MaxVelocityFilter", "le", val)
MaxVelocityFilterGet(a) == Return(a.velocity)

MinDiameterFilter(val) == AttributeFilterInit("MinDiameterFilter", "ge", val)
MinDiameterFilterGet(a) == Return(a.neo.diameter)

MaxDiameterFilter(val) == AttributeFilterInit("MaxDiameterFilter", "le", val)
MaxDiameterFilterGet(a) == Return(a.neo.diameter)

\* self.get(approach): the classmethod of the object's class, the base
\* class's when the class does not override it.
\* A get that falls back to a default value instead of the base class's raise.
GetDefaulting(cls, a) ==
    CASE cls = "HazardousFilter" -> HazardousFilterGet(a)
      [] cls = "DateFilter" -> DateFilterGet(a)
      [] cls = "StartDateFilter" -> StartDateFilterGet(a)
      [] cls = "EndDateFilter" -> EndDateFilterGet(a)
      [] cls = "MinDistanceFilter" -> MinDistanceFilterGet(a)
      [] cls = "MaxDistanceFilter" -> MaxDistanceFilterGet(a)
      [] cls = "MinVelocityFilter" -> MinVelocityFilterGet(a)
      [] cls = "MaxVelocityFilter" -> MaxVelocityFilterGet(a)
      [] cls = "MinDiameterFilter" -> MinDiameterFilterGet(a)
      [] cls = "MaxDiameterFilter" -> MaxDiameterFilterGet(a)
      [] OTHER -> Return(Bool(FALSE))
Get(cls, a) ==
    CASE cls = "HazardousFilter" -> HazardousFilterGet(a)
      [] cls = "DateFilter" -> DateFilterGet(a)
      [] cls = "StartDateFilter" -> StartDateFilterGet(a)
      [] cls = "EndDateFilter" -> EndDateFilterGet(a)
      [] cls = "MinDistanceFilter" -> MinDistanceFilterGet(a)
      [] cls = "MaxDistanceFilter" -> MaxDistanceFilterGet(a)
      [] cls = "MinVelocityFilter" -> MinVelocityFilterGet(a)
      [] cls = "MaxVelocityFilter" -> MaxVelocityFilterGet(a)
      [] cls = "MinDiameterFilter" -> MinDiameterFilterGet(a)
      [] cls = "MaxDiameterFilter" -> MaxDiameterFilterGet(a)
      [] OTHER -> AttributeFilterGet(a)

\* AttributeFilter.__call__: self.op(self.get(approach), self.value).  The
\* argument self.get(approach) is evaluated before op is applied, so an
\* exception of get leaves the call.
Call(f, a) ==
    LET got == Get(f.cls, a)
    IN  IF got.kind = "raise" THEN got
        ELSE Return(Op(f.op, got.value, f.value))

----------------------------------------------------------------------------
(* The records a filter is evaluated on, and the filters evaluated. *)

Dates == {Date(d) : d \in 1..MaxDate}
Nums == {Float(x) : x \in 0..MaxNum}
Bools == {Bool(TRUE), Bool(FALSE)}

NEOs == [designation : {"433"}, name : {PyNone}, diameter : Nums, hazardous : Bools]

Approaches ==
    [time : [date : 1..MaxDate, minute : 0..MaxMinute],
     distance : Nums, velocity : Nums, designation : {"433"}, neo : NEOs]

Comparators == {"eq", "ge", "le"}

\* The filters of the ten subclasses, as their constructors make them.
VariantFilters ==
    {HazardousFilter(h) : h \in Bools}
    \cup {DateFilter(d) : d \in Dates}
    \cup {StartDateFilter(d) : d \in Dates}
    \cup {EndDateFilter(d) : d \in Dates}
    \cup {MinDistanceFilter(v) : v \in Nums}
    \cup {MaxDistanceFilter(v) : v \in Nums}
    \cup {MinVelocityFilter(v) : v \in Nums}
    \cup {MaxVelocityFilter(v) : v \in Nums}
    \cup {MinDiameterFilter(v) : v \in Nums}
    \cup {MaxDiameterFilter(v) : v \in Nums}

\* Filters whose class does not override get: AttributeFilter itself and a
\* subclass of it that only inherits.
UnspecializedClasses == {"AttributeFilter", "InheritingSubclass"}
UnspecializedFilters ==
    {AttributeFilterInit(c, o, v) :
        c \in UnspecializedClasses, o \in Comparators, v \in Dates \cup Nums \cup Bools}

InitFilter ==
    /\ flt \in VariantFilters \cup UnspecializedFilters
    /\ approach \in Approaches
    /\ outcome = NotCalled
    /\ BuildIdle /\ LimitIdle /\ WriteIdle

\* filter(approach)
CallFilter ==
    /\ flt # PyNone
    /\ outcome = NotCalled
    /\ outcome' = Call(flt, approach)
    /\ UNCHANGED <<flt, approach>>
    /\ UNCHANGED <<buildVars, limitVars, writeVars>>

----------------------------------------------------------------------------
(* filters.py: create_filters. *)

\* `if x:` of the nine date and number options (IsNotNone: the test
\* `if x is not None:` in its place).
IsNotNone(x) == x # PyNone
IfOption(x) == Truthy(x)

\* `if hazardous is not None:` (IfHazardousTruthy: `if hazardous:` in its place).
IfHazardousTruthy(x) == Truthy(x)
IfHazardous(x) == x # PyNone

\* filters.append(f) (AppendFirst: filters.insert(0, f) in its place).
AppendFirst(fs, f) == <<f>> \o fs
ListAppend(fs, f) == Append(fs, f)

create_filters(date, start_date, end_date, distance_min, distance_max, velocity_min, velocity_max, diameter_min, diameter_max, hazardous) ==
    LET f0 == << >>
        f1 == IF IfOption(date) THEN ListAppend(f0, DateFilter(date)) ELSE f0
        f2 == IF IfOption(start_date) THEN ListAppend(f1, StartDateFilter(start_date)) ELSE f1
        f3 == IF IfOption(end_date) THEN ListAppend(f2, EndDateFilter(end_date)) ELSE f2
        f4 == IF IfOption(distance_min) THEN ListAppend(f3, MinDistanceFilter(distance_min)) ELSE f3
        f5 == IF IfOption(distance_max) THEN ListAppend(f4, MaxDistanceFilter(distance_max)) ELSE f4
        f6 == IF IfOption(velocity_min) THEN ListAppend(f5, MinVelocityFilter(velocity_min)) ELSE f5
        f7 == IF IfOption(velocity_max) THEN ListAppend(f6, MaxVelocityFilter(velocity_max)) ELSE f6
        f8 == IF IfOption(diameter_min) THEN ListAppend(f7, MinDiameterFilter(diameter_min)) ELSE f7
        f9 == IF IfOption(diameter_max) THEN ListAppend(f8, MaxDiameterFilter(diameter_max)) ELSE f8
        f10 == IF IfHazardous(hazardous) THEN ListAppend(f9, HazardousFilter(hazardous)) ELSE f9
    IN  f10

\* The option values the main module passes: None when the option was not
\* given, else a date, a number (zero included) or, for hazardous, a bool.
OptDates == {PyNone} \cup {Date(d) : d \in 1..MaxOptDate}
OptNums == {PyNone} \cup {Float(x) : x \in 0..MaxOptNum}
OptBools == {PyNone} \cup Bools

Options ==
    [date : OptDates, start_date : OptDates, end_date : OptDates,
     distance_min : OptNums, distance_max : OptNums,
     velocity_min : OptNums, velocity_max : OptNums,
     diameter_min : OptNums, diameter_max : OptNums,
     hazardous : OptBools]

InitBuild ==
    /\ opts \in Options
    /\ filters = << >>
    /\ built = FALSE
    /\ FilterIdle /\ LimitIdle /\ WriteIdle

\* create_filters(**opts)
CreateFilters ==
    /\ opts # PyNone
    /\ ~built
    /\ filters' = create_filters(opts.date, opts.start_date, opts.end_date,
                                 opts.distance_min, opts.distance_max,
                                 opts.velocity_min, opts.velocity_max,
                                 opts.diameter_min, opts.diameter_max,
                                 opts.hazardous)
    /\ built' = TRUE
    /\ UNCHANGED opts
    /\ UNCHANGED <<filterVars, limitVars, writeVars>>

----------------------------------------------------------------------------
(* filters.py: limit. *)

\* The iterator given to limit, as a reference: limit's result is this same
\* object or an islice that holds it.
IteratorRef == [kind |-> "iterator"]

\* itertools.islice(iterator, stop): nothing is pulled at construction.
islice(iterator, stop) ==
    [kind |-> "islice", it |-> iterator, stop |-> stop, cnt |-> 0, live |-> TRUE]

\* limit (limit_unlimited: n is ignored; limit_none_only: the guard is
\* `n is not None`).
limit_unlimited(iterator, nn) == iterator
limit_none_only(iterator, nn) ==
    IF nn # PyNone THEN islice(iterator, nn.val) ELSE iterator
limit(iterator, nn) ==
    IF Truthy(nn) /\ nn.val > 0 THEN islice(iterator, nn.val) ELSE iterator

\* next(l) on limit's result l, the source having produced pos items: the
\* outcome, the result object afterwards and the source's position
\* afterwards.  An islice that has produced stop items, or has ended, ends
\* without asking its source.
IteratorNext(l, src, pos) ==
    IF l.kind = "iterator"
    THEN LET r == IterNext(src, pos)
         IN  [outcome |-> r, lim |-> l,
              pos |-> IF r.kind = "return" THEN pos + 1 ELSE pos]
    ELSE IF ~l.live
    THEN [outcome |-> Raise("StopIteration"), lim |-> l, pos |-> pos]
    ELSE IF l.cnt >= l.stop
    THEN [outcome |-> Raise("StopIteration"), lim |-> [l EXCEPT !.live = FALSE],
          pos |-> pos]
    ELSE LET r == IterNext(src, pos)
         IN  IF r.kind = "return"
             THEN [outcome |-> r, lim |-> [l EXCEPT !.cnt = l.cnt + 1],
                   pos |-> pos + 1]
             ELSE [outcome |-> r, lim |-> [l EXCEPT !.live = FALSE], pos |-> pos]

RECURSIVE SeqsUpTo(_, _)
SeqsUpTo(S, k) ==
    IF k = 0 THEN {<< >>}
    ELSE LET shorter == SeqsUpTo(S, k - 1)
         IN  shorter \cup {Append(q, x) : q \in shorter, x \in S}

LimitSources == [items : SeqsUpTo(1..MaxItem, MaxLen), tail : {"stop", "forever"}]
LimitNs == {PyNone} \cup {PyInt(i) : i \in (-1)..MaxN}

InitLimit ==
    /\ source \in LimitSources
    /\ argN \in LimitNs
    /\ srcPos = 0
    /\ lim = NotCalled
    /\ out = << >>
    /\ requests = 0
    /\ stopped = FALSE
    /\ FilterIdle /\ BuildIdle /\ WriteIdle

\* limit(iterator, n)
CallLimit ==
    /\ source # PyNone
    /\ lim = NotCalled
    /\ lim' = limit(IteratorRef, argN)
    /\ UNCHANGED <<source, argN, srcPos, out, requests, stopped>>
    /\ UNCHANGED <<filterVars, buildVars, writeVars>>

\* The consumer asks limit's result for one more item.
ConsumerNext ==
    /\ lim # NotCalled
    /\ requests < MaxRequests
    /\ LET r == IteratorNext(lim, source, srcPos)
       IN  /\ lim' = r.lim
           /\ srcPos' = r.pos
           /\ out' = IF r.outcome.kind = "return" THEN Append(out, r.outcome.value) ELSE out
           /\ stopped' = (stopped \/ r.outcome = Raise("StopIteration"))
    /\ requests' = requests + 1
    /\ UNCHANGED <<source, argN>>
    /\ UNCHANGED <<filterVars, buildVars, writeVars>>

----------------------------------------------------------------------------
(* write.py: write_to_csv and write_to_json. *)

\* helpers.datetime_to_str: the timestamp rendered to the minute.
datetime_to_str(t) ==
    [type |-> "str", format |-> "%Y-%m-%d %H:%M", date |-> t.date, minute |-> t.minute]

fieldnames ==
    <<Str("datetime_utc"), Str("distance_au"), Str("velocity_km_s"),
      Str("designation"), Str("name"), Str("diameter_km"),
      Str("potentially_hazardous")>>

\* The row of a record (the lambda of write_to_csv); reading an attribute
\* of a missing neo raises.
csv_row(result) ==
    IF result.neo = PyNone THEN Raise("AttributeError")
    ELSE Return(<<datetime_to_str(result.time),
                  result.distance,
                  result.velocity,
                  Str(result.designation),
                  IF Truthy(result.neo.name) THEN result.neo.name ELSE Str(""),
                  result.neo.diameter,
                  result.neo.hazardous>>)

result_to_dict(result) ==
    LET neo == result.neo
    IN  IF neo = PyNone THEN Raise("AttributeError")
        ELSE Return([datetime_utc |-> datetime_to_str(result.time),
                     distance_au |-> result.distance,
                     velocity_km_s |-> result.velocity,
                     neo |-> [designation |-> Str(neo.designation),
                              name |-> IF Truthy(neo.name) THEN neo.name ELSE Str(""),
                              diameter_km |-> neo.diameter,
                              potentially_hazardous |-> neo.hazardous]])

\* open(filename, 'w'): the content of the file once opened (open_append:
\* mode 'a' in its place).
open_append(content) == content
open_w(content) == << >>

\* Leaving the with block, normally or by the exception e: the handle's state
\* (exit_unless_error: a close() after the block, without a with or finally).
exit_unless_error(handle, e) == IF e = PyNone THEN "closed" ELSE handle
with_exit(handle, e) == "closed"

\* writer.writerow(row)
writerow(content, row) == Append(content, row)

\* json.dump(obj, f): one document.
json_dump(obj, content) == Append(content, obj)

\* The file after list(map(_result_to_dict, results)) has taken one more
\* dict: nothing is written before the list is whole (collect_and_write:
\* each dict written as it is made).
collect_and_write(content, d) == Append(content, <<d>>)
collect_only(content, d) == content

WriteNEOs ==
    [designation : {"433"}, name : {PyNone, Str(""), Str("Eros")},
     diameter : {Float(1)}, hazardous : {Bool(TRUE)}]

\* The records a serializer is given; one has no neo.
WriteApproaches ==
    [time : [date : {1}, minute : {0}], distance : {Float(1)}, velocity : {Float(1)},
     designation : {"433"}, neo : WriteNEOs \cup {PyNone}]

WriteSources == [items : SeqsUpTo(WriteApproaches, MaxResults), tail : {"stop", "raise"}]

\* What the destination holds before the call.
StaleContents == {<< >>, <<<<Str("stale")>>>>}

InitWrite ==
    /\ fmt \in {"csv", "json"}
    /\ results \in WriteSources
    /\ openOk \in BOOLEAN
    /\ file \in StaleContents
    /\ rpos = 0
    /\ pulls = << >>
    /\ pc = "start"
    /\ fh = "unopened"
    /\ acc = << >>
    /\ err = PyNone
    /\ FilterIdle /\ BuildIdle /\ LimitIdle

\* with open(filename, 'w') as f: the destination opens, truncated, or the
\* open fails with an I/O error and the call ends.
OpenFile ==
    /\ pc = "start"
    /\ IF openOk
       THEN /\ fh' = "open"
            /\ file' = open_w(file)
            /\ pc' = IF fmt = "csv" THEN "header" ELSE "collect"
            /\ err' = err
       ELSE /\ err' = Raise("OSError")
            /\ pc' = "done"
            /\ UNCHANGED <<fh, file>>
    /\ UNCHANGED <<fmt, results, openOk, rpos, pulls, acc>>
    /\ UNCHANGED <<filterVars, buildVars, limitVars>>

\* writer.writerow(fieldnames)
CsvWriteHeader ==
    /\ pc = "header"
    /\ file' = writerow(file, fieldnames)
    /\ pc' = "rows"
    /\ UNCHANGED <<fmt, results, openOk, rpos, pulls, fh, acc, err>>
    /\ UNCHANGED <<filterVars, buildVars, limitVars>>

\* One turn of writer.writerows(map(...)): the next record is pulled, made a
\* row and written; the end of the sequence ends the loop, an exception
\* leaves the with block.
CsvWriteRow ==
    /\ pc = "rows"
    /\ LET r == IterNext(results, rpos)
       IN  IF r.kind = "raise"
           THEN /\ err' = IF r.exc = "StopIteration" THEN err ELSE r
                /\ pc' = "exit"
                /\ UNCHANGED <<rpos, pulls, file>>
           ELSE /\ rpos' = rpos + 1
                /\ pulls' = Append(pulls, rpos + 1)
                /\ LET row == csv_row(r.value)
                   IN  IF row.kind = "raise"
                       THEN /\ err' = row
                            /\ pc' = "exit"
                            /\ file' = file
                       ELSE /\ file' = writerow(file, row.value)
                            /\ pc' = "rows"
                            /\ err' = err
    /\ UNCHANGED <<fmt, results, openOk, fh, acc>>
    /\ UNCHANGED <<filterVars, buildVars, limitVars>>

\* One turn of list(map(_result_to_dict, results)): the next record is
\* pulled and its dict kept in the list; nothing is written.
JsonCollect ==
    /\ pc = "collect"
    /\ LET r == IterNext(results, rpos)
       IN  IF r.kind = "raise"
           THEN /\ err' = IF r.exc = "StopIteration" THEN err ELSE r
                /\ pc' = IF r.exc = "StopIteration" THEN "dump" ELSE "exit"
                /\ UNCHANGED <<rpos, pulls, acc, file>>
           ELSE /\ rpos' = rpos + 1
                /\ pulls' = Append(pulls, rpos + 1)
                /\ LET d == result_to_dict(r.value)
                   IN  IF d.kind = "raise"
                       THEN /\ err' = d
                            /\ pc' = "exit"
                            /\ UNCHANGED <<acc, file>>
                       ELSE /\ acc' = Append(acc, d.value)
                            /\ file' = collect_only(file, d.value)
                            /\ pc' = "collect"
                            /\ err' = err
    /\ UNCHANGED <<fmt, results, openOk, fh>>
    /\ UNCHANGED <<filterVars, buildVars, limitVars>>

\* json.dump(the list, f)
JsonDump ==
    /\ pc = "dump"
    /\ file' = json_dump(acc, file)
    /\ pc' = "exit"
    /\ UNCHANGED <<fmt, results, openOk, rpos, pulls, fh, acc, err>>
    /\ UNCHANGED <<filterVars, buildVars, limitVars>>

\* The with block is left: the handle is closed, and an exception goes on to
\* the caller.
ExitWith ==
    /\ pc = "exit"
    /\ fh' = with_exit(fh, err)
    /\ pc' = "done"
    /\ UNCHANGED <<fmt, results, openOk, rpos, pulls, file, acc, err>>
    /\ UNCHANGED <<filterVars, buildVars, limitVars>>

----------------------------------------------------------------------------
(* The specifications: one per operation of the program. *)

NextFilter == CallFilter
SpecFilter == InitFilter /\ [][NextFilter]_vars

NextBuild == CreateFilters
SpecBuild == InitBuild /\ [][NextBuild]_vars

NextLimit == CallLimit \/ ConsumerNext
SpecLimit == InitLimit /\ [][NextLimit]_vars

NextWrite == OpenFile \/ CsvWriteHeader \/ CsvWriteRow \/ JsonCollect \/ JsonDump \/ ExitWith
SpecWrite == InitWrite /\ [][NextWrite]_vars

----------------------------------------------------------------------------
(* The documented variants: the class made for each option, the attribute  *)
(* each class reads and the comparator it applies.                         *)

VariantClasses ==
    {"HazardousFilter", "DateFilter", "StartDateFilter", "EndDateFilter",
     "MinDistanceFilter", "MaxDistanceFilter", "MinVelocityFilter",
     "MaxVelocityFilter", "MinDiameterFilter", "MaxDiameterFilter"}

DocAttribute(cls, a) ==
    CASE cls = "HazardousFilter" -> a.neo.hazardous
      [] cls \in {"DateFilter", "StartDateFilter", "EndDateFilter"} -> Date(a.time.date)
      [] cls \in {"MinDistanceFilter", "MaxDistanceFilter"} -> a.distance
      [] cls \in {"MinVelocityFilter", "MaxVelocityFilter"} -> a.velocity
      [] cls \in {"MinDiameterFilter", "MaxDiameterFilter"} -> a.neo.diameter

DocCompare(cls, actual, r) ==
    CASE cls \in {"HazardousFilter", "DateFilter"} -> actual = r
      [] cls \in {"StartDateFilter", "MinDistanceFilter", "MinVelocityFilter",
                  "MinDiameterFilter"} -> actual.val >= r.val
      [] cls \in {"EndDateFilter", "MaxDistanceFilter", "MaxVelocityFilter",
                  "MaxDiameterFilter"} -> actual.val <= r.val

OptionOrder ==
    <<"date", "start_date", "end_date", "distance_min", "distance_max",
      "velocity_min", "velocity_max", "diameter_min", "diameter_max", "hazardous">>

NumericOptions ==
    {"distance_min", "distance_max", "velocity_min", "velocity_max",
     "diameter_min", "diameter_max"}

VariantOf(k) ==
    CASE k = "date" -> "DateFilter"
      [] k = "start_date" -> "StartDateFilter"
      [] k = "end_date" -> "EndDateFilter"
      [] k = "distance_min" -> "MinDistanceFilter"
      [] k = "distance_max" -> "MaxDistanceFilter"
      [] k = "velocity_min" -> "MinVelocityFilter"
      [] k = "velocity_max" -> "MaxVelocityFilter"
      [] k = "diameter_min" -> "MinDiameterFilter"
      [] k = "diameter_max" -> "MaxDiameterFilter"
      [] k = "hazardous" -> "HazardousFilter"

\* The collection holds, in the order of OptionOrder, one filter of the
\* matching class and value for each option that wanted(k) selects.
HoldsOneFilterPer(wanted(_)) ==
    LET req == SelectSeq(OptionOrder, wanted)
    IN  /\ Len(filters) = Len(req)
        /\ \A i \in 1..Len(req) :
              /\ filters[i].cls = VariantOf(req[i])
              /\ filters[i].value = opts[req[i]]

----------------------------------------------------------------------------
(* Claims about the filters. *)

C8_UnspecializedGetRaises ==
    (flt # PyNone /\ outcome # NotCalled /\ flt.cls \notin VariantClasses)
        => outcome = Raise("UnsupportedCriterionError")

C8_Witness ==
    /\ flt # PyNone
    /\ flt.cls = "InheritingSubclass"
    /\ flt.op = "le"
    /\ outcome = Raise("UnsupportedCriterionError")

----------------------------------------------------------------------------
(* Claims about create_filters. *)

IsPresent(k) == opts[k] # PyNone
IsRequested(k) == opts[k] # PyNone /\ (k # "hazardous" => opts[k] # Float(0))

\* C2 as stated: for every combination of the ten options, create_filters
\* returns exactly one filter per option that is set (not None), of the
\* matching variant and value, in the order date .. hazardous; so with
\* exactly one option set the list has length 1.
C2_Original_OneFilterPerSetOption ==
    built => HoldsOneFilterPer(IsPresent)

\* C2 as amended: create_filters returns exactly one filter per requested
\* option, of the matching variant and value, in the order date ..
\* hazardous, where an option is requested when it is not None and, for the
\* nine options other than hazardous, not zero; with exactly one option
\* requested the list has length 1.
C2_OneFilterPerRequestedOption ==
    built =>
        /\ HoldsOneFilterPer(IsRequested)
        /\ Cardinality({i \in 1..Len(OptionOrder) : IsRequested(OptionOrder[i])}) = 1
              => Len(filters) = 1

\* Several options at once, one of them zero and hazardous False: two number
\* filters and the hazard filter, the zero option giving none.
C2_Witness ==
    /\ built
    /\ opts.date # PyNone
    /\ opts.distance_max = Float(1)
    /\ opts.velocity_min = Float(0)
    /\ opts.hazardous = Bool(FALSE)
    /\ Len(filters) >= 3
    /\ filters[1].cls = "DateFilter"
    /\ filters[Len(filters)].cls = "HazardousFilter"

\* A record whose neo has the given hazard flag.
HazardProbe(h) ==
    [time |-> [date |-> 1, minute |-> 0], distance |-> Float(0), velocity |-> Float(0),
     designation |-> "433",
     neo |-> [designation |-> "433", name |-> PyNone, diameter |-> Float(0),
              hazardous |-> h]]

HazardousIndexes == {i \in 1..Len(filters) : filters[i].cls = "HazardousFilter"}

\* C3: hazardous is tri-state.  hazardous=False gives a HazardousFilter with
\* reference False, which matches exactly the records whose neo is not
\* hazardous; hazardous=True gives one with reference True; hazardous unset
\* (None) gives no HazardousFilter: False and unset differ in what the
\* collection holds.
C3_HazardousTriState ==
    built =>
        IF opts.hazardous = PyNone
        THEN HazardousIndexes = {}
        ELSE /\ Cardinality(HazardousIndexes) = 1
             /\ \A i \in HazardousIndexes :
                   /\ filters[i].value = opts.hazardous
                   /\ \A h \in Bools :
                         Call(filters[i], HazardProbe(h)) = Return(h = opts.hazardous)

C3_Witness ==
    /\ built
    /\ opts.hazardous = Bool(FALSE)
    /\ HazardousIndexes # {}
    /\ \A i \in HazardousIndexes : filters[i].value = Bool(FALSE)

\* C4: for each of the six number options, the value 0 has the effect of
\* leaving the option unset: create_filters adds no filter for it, and with
\* only such an option set, to 0, the collection is empty.
C4_ZeroIsUnset ==
    built =>
        \A k \in NumericOptions :
            opts[k] = Float(0) =>
                /\ \A i \in 1..Len(filters) : filters[i].cls # VariantOf(k)
                /\ (\A j \in DOMAIN opts : j # k => opts[j] = PyNone) => filters = << >>

C4_Witness ==
    /\ built
    /\ opts.distance_min = Float(0)
    /\ \A j \in DOMAIN opts : j # "distance_min" => opts[j] = PyNone
    /\ filters = << >>

----------------------------------------------------------------------------
(* Claims about limit. *)

\* The i-th item of the source given to limit.
SourceItem(i) == IF i <= Len(source.items) THEN source.items[i] ELSE i

Limited == argN # PyNone /\ argN.val > 0
Unlimited == argN = PyNone \/ argN.val = 0

IsSourcePrefix(q) == \A i \in 1..Len(q) : q[i] = SourceItem(i)

\* C5: for n > 0, iterating limit(S, n) to exhaustion yields exactly
\* min(len(S), n) items, the first items of S in their order (n items of a
\* source that never ends); for n = 0 or n None, limit(S, n) is S itself, and
\* iterating it yields every item of S unchanged.
C5_LimitYieldsFirstItems ==
    lim # NotCalled =>
        /\ IsSourcePrefix(out)
        /\ Limited =>
              /\ Len(out) <= argN.val
              /\ stopped =>
                    Len(out) = IF source.tail = "forever" \/ argN.val <= Len(source.items)
                               THEN argN.val ELSE Len(source.items)
        /\ Unlimited =>
              /\ lim = IteratorRef
              /\ stopped => out = source.items

\* A source of two items cut to its first item, and iterated to the end.
C5_Witness ==
    /\ lim # NotCalled
    /\ argN = PyInt(1)
    /\ Len(source.items) = 2
    /\ source.items[1] # source.items[2]
    /\ stopped
    /\ out = <<source.items[1]>>

\* C6: limit is lazy.  The call pulls nothing from the source; for n > 0 the
\* number of items pulled never exceeds n nor the number of items the
\* consumer has asked for, also after the result has ended; and on a source
\* that never ends, the result has ended, after n items, once more than n
\* items have been asked for.
C6_LimitIsLazy ==
    lim # NotCalled =>
        /\ requests = 0 => srcPos = 0
        /\ Limited =>
              /\ srcPos <= argN.val
              /\ srcPos <= requests
              /\ (source.tail = "forever" /\ requests > argN.val)
                    => (stopped /\ Len(out) = argN.val /\ srcPos = argN.val)

\* A source that never ends, limited to two items and asked for four.
C6_Witness ==
    /\ lim # NotCalled
    /\ source.tail = "forever"
    /\ argN = PyInt(2)
    /\ requests = 4
    /\ srcPos = 2
    /\ stopped

----------------------------------------------------------------------------
(* Claims about the serializers. *)

WellFormed(k) == \A i \in 1..k : results.items[i].neo # PyNone

\* The rows, and the dicts, of the first k records of the sequence.
RowsOf(k) == [i \in 1..k |-> csv_row(results.items[i]).value]
DictsOf(k) == [i \in 1..k |-> result_to_dict(results.items[i]).value]

DocumentedHeader ==
    <<Str("datetime_utc"), Str("distance_au"), Str("velocity_km_s"),
      Str("designation"), Str("name"), Str("diameter_km"),
      Str("potentially_hazardous")>>

\* C7: in write_to_csv and in write_to_json, once the destination has been
\* opened it is closed on every exit path: after normal completion and when
\* the sequence, or the reading of a record's attributes, raises; no call
\* ends with the handle open.
C7_HandleClosedOnEveryExit ==
    pc = "done" => fh = (IF openOk THEN "closed" ELSE "unopened")

\* write_to_csv has ended on an error of the sequence after one record.
C7_Witness ==
    /\ pc = "done"
    /\ fmt = "csv"
    /\ err = Raise("SourceError")
    /\ rpos = 1
    /\ fh = "closed"

\* C9: a serializer that completes has pulled every item of the sequence
\* exactly once, in order, and has emitted one entry per record in that
\* order: write_to_csv the seven-column header and then one row per record,
\* write_to_json one array of one element per record; for an empty sequence
\* the header alone, or an empty array.
C9_OnePassOneEntryPerRecord ==
    (pc = "done" /\ err = PyNone) =>
        LET k == Len(results.items)
        IN  /\ pulls = [i \in 1..k |-> i]
            /\ fmt = "csv" => file = <<DocumentedHeader>> \o RowsOf(k)
            /\ fmt = "json" => file = <<DictsOf(k)>>

\* write_to_csv has written two different records over a stale file.
C9_Witness ==
    /\ pc = "done"
    /\ err = PyNone
    /\ fmt = "csv"
    /\ Len(results.items) = 2
    /\ results.items[1] # results.items[2]
    /\ Len(file) = 3

\* C10: when the sequence raises after k records, write_to_json has written
\* nothing (the file was opened and truncated, and is left empty), while
\* write_to_csv has written the header and the rows of the k records; in
\* both, the error reaches the caller.
C10_PartialOutputOnSourceError ==
    (pc = "done" /\ openOk /\ results.tail = "raise" /\ WellFormed(Len(results.items))) =>
        /\ err = Raise("SourceError")
        /\ fmt = "json" => file = << >>
        /\ fmt = "csv" => file = <<DocumentedHeader>> \o RowsOf(Len(results.items))

\* write_to_json has ended on an error of the sequence after two records.
C10_Witness ==
    /\ pc = "done"
    /\ fmt = "json"
    /\ results.tail = "raise"
    /\ Len(results.items) = 2
    /\ rpos = 2
    /\ err = Raise("SourceError")
    /\ file = << >>

====
